---- MODULE Spec2Model ----
(***************************************************************************)
(* planb/aws.py: the request-throttling, session-refreshing boto client.   *)
(*                                                                         *)
(* boto_client() returns RequestThrottlingBotoClient wrapping              *)
(* SessionRefreshingBotoClient wrapping the boto3 client.  One outer       *)
(* invocation is a call of RequestThrottlingBotoClient's wrapper; it calls *)
(* SessionRefreshingBotoClient's wrapper, which calls the boto3 client.    *)
(*                                                                         *)
(* Durations are counted in half time-units: 0.5 s is 1.                   *)
(***************************************************************************)
EXTENDS Integers, Sequences, FiniteSets, TLC

\* ------------------------------------------------------------------ bounds
NumThreads == 2
MaxConn == 3

\* --------------------------------------------------------------- constants
MAX_RETRIES == 10
RETRY_SLEEP == 1

Threads == 1..NumThreads
\* The single caller of the sequential specification.
MainThread == CHOOSE t \in Threads : \A u \in Threads : t <= u

\* ------------------------------------------------------- the remote client
\* Operation names and argument sets the caller may pass (opaque to the code).
OpNames == {"describe_instances", "create_topic"}
ArgSets == {"args_a", "args_b"}
\* Results a remote call may return (opaque to the code).
Results == {"resp_1", "resp_2"}
NoRet == "no_return"

\* An exception: its class, the Error Code of its response, its message
\* as a sequence of words.
NoExc == [cls |-> "none", code |-> "", msg |-> <<>>]
ErrorCodes == {"RequestExpired", "Throttling", "RequestLimitExceeded", "AccessDenied"}
Messages == {<<"Request", "failed">>, <<"RequestLimitExceeded", "slow", "down">>}
ClientErrors == [cls : {"ClientError"}, code : ErrorCodes, msg : Messages]
\* botocore failures that are not ClientError (ProfileNotFound,
\* EndpointConnectionError, ...): no except clause of the module names them.
OtherErrors == {[cls |-> "BotoCoreError", code |-> "", msg |-> <<"could", "not", "connect">>]}
RemoteErrors == ClientErrors \cup OtherErrors
\* What the interpreter raises when a global name is not bound.
NameError(n) == [cls |-> "NameError", code |-> "", msg |-> <<"name", n, "is", "not", "defined">>]

\* The names bound in the module's global namespace by its imports (the
\* names the module itself defines are never looked up by NameBound).
ImportedNames == {"logging", "botocore", "ClientError", "boto3"}
NameBound(n) == n \in ImportedNames

\* str(e) of a ClientError: "An error occurred (<code>) when calling the
\* <operation> operation: <message>", as a sequence of words.
StrOfError(e) ==
    IF e.cls = "ClientError"
    THEN <<"An", "error", "occurred", e.code, "when", "calling", "the", "operation">> \o e.msg
    ELSE e.msg

\* `word in text` on the sequences of words.
Contains(text, word) == \E i \in 1..Len(text) : text[i] = word

VARIABLES
    client,      \* SessionRefreshingBotoClient._client: the current connection
    nextConn,    \* the id the next established connection gets
    pc,          \* pc[t]: where thread t's invocation stands
    name,        \* name[t]: the operation name of t's invocation
    args,        \* args[t]: the arguments of t's invocation
    count,       \* count[t]: local `count` of the throttling wrapper
    retried,     \* retried[t]: local `retried` of the session wrapper
    attr,        \* attr[t]: the connection whose method line 28 bound
    newclient,   \* newclient[t]: the connection session.client() returned to t (line 20)
    exc,         \* exc[t]: the exception an except clause is handling
    sleep_time,  \* sleep_time[t]: local `sleep_time` of the throttling wrapper
    ret,         \* ret[t]: what the outer invocation returned
    raised,      \* raised[t]: what the outer invocation raised
    calls,       \* calls[t]: the remote calls made for t's invocation
    waits,       \* waits[t]: the durations t's invocation slept
    refreshes,   \* refreshes[t]: _refresh_session calls of t's invocation
    estfail,     \* estfail[t]: failures of connection establishment of t's invocation
    ensure       \* the activation of ensure_instance_profile (lines 158-237)

vars == <<client, nextConn, pc, name, args, count, retried, attr, newclient, exc,
          sleep_time, ret, raised, calls, waits, refreshes, estfail, ensure>>

\* ----------------------------------------------------------------- helpers
RECURSIVE Pow2(_)
Pow2(n) == IF n = 0 THEN 1 ELSE 2 * Pow2(n - 1)

RECURSIVE SumSeq(_)
SumSeq(s) == IF s = <<>> THEN 0 ELSE Head(s) + SumSeq(Tail(s))

\* Faulty variant: the exponent starts one too high.
get_retry_sleep_duration_OffByOne(retries) == Pow2(retries + 1) * RETRY_SLEEP

\* line 49: 2 ** retries * RETRY_SLEEP
get_retry_sleep_duration(retries) == Pow2(retries) * RETRY_SLEEP

\* Faulty variant: the `if not retried` test is missing.
ShouldRefresh_EveryTime(e, done_before) == e.code = "RequestExpired"

\* Faulty variant: the error code is not looked at.
ShouldRefresh_AnyCode(e, done_before) == ~done_before

\* line 31-32: the session wrapper refreshes for this failure
ShouldRefresh(e, done_before) == e.code = "RequestExpired" /\ ~done_before

\* Faulty variant: every ClientError is taken for a rate limit.
IsThrottled_AnyClientError(e) == TRUE

\* Faulty variant: only the error code is looked at, not str(e).
IsThrottled_CodeOnly(e) == e.code = "Throttling"

\* line 66-67: the throttling wrapper takes this failure for a rate limit
IsThrottled(e) == e.code = "Throttling" \/ Contains(StrOfError(e), "RequestLimitExceeded")

\* line 68
MayRetry(c) == c < MAX_RETRIES

\* Faulty variant: the wrapper calls attr(...) without `return`.
Forward_NoReturn(result) == NoRet

\* line 29 / line 64: `return attr(*args, **kwargs)`
Forward(result) == result

\* Faulty variant: the new client is bound to a local name, self._client keeps the old one.
NewClient_NotStored(old, new) == old

\* line 20: self._client = session.client(...)
NewClient(old, new) == new

\* line 28: getattr(self._client, name) reads self._client at every attempt
ReadClient(live, bound) == live

\* Faulty variant: the variable is an attribute of the shared proxy object.
SetLocal_OnInstance(f, t, v) == [u \in DOMAIN f |-> v]

\* lines 24, 33, 61: assignment to a local variable of t's wrapper call
SetLocal(f, t, v) == [f EXCEPT ![t] = v]

\* ensure_instance_profile has not been called.
EnsureIdle ==
    [pc |-> "idle", cluster |-> "", step |-> 0, profile |-> NoRet, found |-> NoRet, failed |-> NoExc,
     called |-> <<>>, ret |-> <<>>, raised |-> NoExc]

\* -------------------------------------------------------------------- Init
\* The state after boto_client(): __init__ has run _refresh_session once.
Init ==
    /\ client = 1
    /\ nextConn = 2
    /\ pc = [t \in Threads |-> "idle"]
    /\ name = [t \in Threads |-> "describe_instances"]
    /\ args = [t \in Threads |-> "args_a"]
    /\ count = [t \in Threads |-> 0]
    /\ retried = [t \in Threads |-> FALSE]
    /\ attr = [t \in Threads |-> 0]
    /\ newclient = [t \in Threads |-> 0]
    /\ exc = [t \in Threads |-> NoExc]
    /\ sleep_time = [t \in Threads |-> 0]
    /\ ret = [t \in Threads |-> NoRet]
    /\ raised = [t \in Threads |-> NoExc]
    /\ calls = [t \in Threads |-> <<>>]
    /\ waits = [t \in Threads |-> <<>>]
    /\ refreshes = [t \in Threads |-> 0]
    /\ estfail = [t \in Threads |-> {}]
    /\ ensure = EnsureIdle

\* The outer invocation of t ends by returning v.
Returns(t, v) ==
    /\ pc' = [pc EXCEPT ![t] = "done"]
    /\ ret' = [ret EXCEPT ![t] = v]
    /\ raised' = raised
    /\ exc' = [exc EXCEPT ![t] = NoExc]

\* The outer invocation of t ends by raising e.
Raises(t, e) ==
    /\ pc' = [pc EXCEPT ![t] = "done"]
    /\ raised' = [raised EXCEPT ![t] = e]
    /\ ret' = ret
    /\ exc' = [exc EXCEPT ![t] = NoExc]

\* ----------------------------------------------------------------- actions
\* The caller invokes operation n with arguments a on the composed handle:
\* RequestThrottlingBotoClient.__getattr__ and the wrapper up to `count = 0`.
Call(t, n, a) ==
    /\ pc[t] \in {"idle", "done"}
    /\ name' = [name EXCEPT ![t] = n]
    /\ args' = [args EXCEPT ![t] = a]
    /\ count' = SetLocal(count, t, 0)
    /\ pc' = [pc EXCEPT ![t] = "outer_try"]
    /\ retried' = [retried EXCEPT ![t] = FALSE]
    /\ attr' = [attr EXCEPT ![t] = 0]
    /\ newclient' = [newclient EXCEPT ![t] = 0]
    /\ exc' = [exc EXCEPT ![t] = NoExc]
    /\ sleep_time' = [sleep_time EXCEPT ![t] = 0]
    /\ ret' = [ret EXCEPT ![t] = NoRet]
    /\ raised' = [raised EXCEPT ![t] = NoExc]
    /\ calls' = [calls EXCEPT ![t] = <<>>]
    /\ waits' = [waits EXCEPT ![t] = <<>>]
    /\ refreshes' = [refreshes EXCEPT ![t] = 0]
    /\ estfail' = [estfail EXCEPT ![t] = {}]
    /\ UNCHANGED <<client, nextConn>>

\* A caller of the handle picks the operation and its arguments.
InvokeOf(t, names, argsets) ==
    /\ client < MaxConn
    /\ \E n \in names, a \in argsets : Call(t, n, a)
    /\ UNCHANGED ensure

Invoke(t) == InvokeOf(t, OpNames, ArgSets)

\* line 64: the throttling wrapper calls the session wrapper, which starts
\* with `retried = False` (line 24).
ThrottleAttempt(t) ==
    /\ pc[t] = "outer_try"
    /\ retried' = SetLocal(retried, t, FALSE)
    /\ pc' = [pc EXCEPT ![t] = "inner_try"]
    /\ UNCHANGED <<ensure, client, nextConn, name, args, count, attr, newclient, exc, sleep_time,
                   ret, raised, calls, waits, refreshes, estfail>>

\* line 28: attr = getattr(self._client, name)
InnerGetAttr(t) ==
    /\ pc[t] = "inner_try"
    /\ attr' = [attr EXCEPT ![t] = ReadClient(client, attr[t])]
    /\ pc' = [pc EXCEPT ![t] = "inner_call"]
    /\ UNCHANGED <<ensure, client, nextConn, name, args, count, retried, newclient, exc, sleep_time,
                   ret, raised, calls, waits, refreshes, estfail>>

\* Faulty variant: the wrapper calls attr() without the caller's arguments.
PassedArgs_Dropped(a) == "no_args"

\* line 29: attr(*args, **kwargs)
PassedArgs(a) == a

\* line 28: getattr(self._client, name)
BoundName(n) == n

CallRecord(t, r, e) ==
    [conn |-> attr[t], name |-> BoundName(name[t]), args |-> PassedArgs(args[t]),
     ret |-> r, exc |-> e]

\* line 29, the remote call returns: both wrappers return its result.
RemoteReturnsOf(t, results) ==
    /\ pc[t] = "inner_call"
    /\ \E r \in results :
        /\ calls' = [calls EXCEPT ![t] = Append(@, CallRecord(t, r, NoExc))]
        /\ Returns(t, Forward(Forward(r)))
    /\ UNCHANGED <<ensure, client, nextConn, name, args, count, retried, attr, newclient,
                   sleep_time, waits, refreshes, estfail>>

RemoteReturns(t) == RemoteReturnsOf(t, Results)

\* line 29, the remote call raises: a ClientError reaches line 30, anything
\* else passes both wrappers.
RemoteRaisesOf(t, errors) ==
    /\ pc[t] = "inner_call"
    /\ \E e \in errors :
        /\ calls' = [calls EXCEPT ![t] = Append(@, CallRecord(t, NoRet, e))]
        /\ IF e.cls = "ClientError"
           THEN /\ exc' = [exc EXCEPT ![t] = e]
                /\ pc' = [pc EXCEPT ![t] = "inner_except"]
                /\ UNCHANGED <<ret, raised>>
           ELSE Raises(t, e)
    /\ UNCHANGED <<ensure, client, nextConn, name, args, count, retried, attr, newclient,
                   sleep_time, waits, refreshes, estfail>>

RemoteRaises(t) == RemoteRaisesOf(t, RemoteErrors)

\* lines 30-37: refresh once for RequestExpired, otherwise re-raise to the
\* throttling wrapper's except clause (line 65).
InnerExcept(t) ==
    /\ pc[t] = "inner_except"
    /\ IF ShouldRefresh(exc[t], retried[t])
       THEN /\ retried' = SetLocal(retried, t, TRUE)
            /\ pc' = [pc EXCEPT ![t] = "refresh"]
       ELSE /\ pc' = [pc EXCEPT ![t] = "outer_except"]
            /\ UNCHANGED retried
    /\ UNCHANGED <<ensure, client, nextConn, name, args, count, attr, newclient, exc, sleep_time,
                   ret, raised, calls, waits, refreshes, estfail>>

\* line 35 -> lines 19-20, boto3 establishes the new connection:
\* session.client(...) returns it; self._client is not assigned yet.
RefreshSession(t) ==
    /\ pc[t] = "refresh"
    /\ newclient' = [newclient EXCEPT ![t] = nextConn]
    /\ nextConn' = nextConn + 1
    /\ refreshes' = [refreshes EXCEPT ![t] = @ + 1]
    /\ exc' = [exc EXCEPT ![t] = NoExc]
    /\ pc' = [pc EXCEPT ![t] = "store"]
    /\ UNCHANGED <<ensure, client, name, args, count, retried, attr, sleep_time, ret, raised,
                   calls, waits, estfail>>

\* line 20, the assignment: self._client is replaced by the connection
\* session.client() returned, and the loop continues at line 26.
StoreClient(t) ==
    /\ pc[t] = "store"
    /\ client' = NewClient(client, newclient[t])
    /\ pc' = [pc EXCEPT ![t] = "inner_try"]
    /\ UNCHANGED <<ensure, nextConn, name, args, count, retried, attr, newclient, exc, sleep_time,
                   ret, raised, calls, waits, refreshes, estfail>>

\* line 35 -> lines 17-20, establishing the connection raises: self._client
\* is not assigned; the failure leaves the session wrapper and reaches the
\* throttling wrapper's `except ClientError` (line 65) if it is one.
RefreshFailsOf(t, errors) ==
    /\ pc[t] = "refresh"
    /\ refreshes' = [refreshes EXCEPT ![t] = @ + 1]
    /\ \E e \in errors :
        /\ estfail' = [estfail EXCEPT ![t] = @ \cup {e}]
        /\ IF e.cls = "ClientError"
           THEN /\ exc' = [exc EXCEPT ![t] = e]
                /\ pc' = [pc EXCEPT ![t] = "outer_except"]
                /\ UNCHANGED <<ret, raised>>
           ELSE Raises(t, e)
    /\ UNCHANGED <<ensure, client, nextConn, name, args, count, retried, attr, newclient,
                   sleep_time, calls, waits>>

RefreshFails(t) == RefreshFailsOf(t, RemoteErrors)

\* lines 65-69 and 77: a rate-limited failure with retries left computes
\* sleep_time; any other failure is re-raised to the caller.
OuterExcept(t) ==
    /\ pc[t] = "outer_except"
    /\ IF IsThrottled(exc[t]) /\ MayRetry(count[t])
       THEN /\ sleep_time' = [sleep_time EXCEPT ![t] = get_retry_sleep_duration(count[t])]
            /\ pc' = [pc EXCEPT ![t] = "sleep"]
            /\ UNCHANGED <<ret, raised, exc>>
       ELSE /\ Raises(t, exc[t])
            /\ UNCHANGED sleep_time
    /\ UNCHANGED <<ensure, client, nextConn, name, args, count, retried, attr, newclient,
                   calls, waits, refreshes, estfail>>

\* lines 74-76: time.sleep(sleep_time); count += 1; continue.  Evaluating
\* the global name `time` raises NameError when the module has not bound it;
\* raised inside the except clause, it leaves the wrapper.
Sleep(t) ==
    /\ pc[t] = "sleep"
    /\ IF NameBound("time")
       THEN /\ waits' = [waits EXCEPT ![t] = Append(@, sleep_time[t])]
            /\ count' = SetLocal(count, t, count[t] + 1)
            /\ exc' = [exc EXCEPT ![t] = NoExc]
            /\ pc' = [pc EXCEPT ![t] = "outer_try"]
            /\ UNCHANGED <<ret, raised>>
       ELSE /\ Raises(t, NameError("time"))
            /\ UNCHANGED <<waits, count>>
    /\ UNCHANGED <<ensure, client, nextConn, name, args, retried, attr, newclient, sleep_time,
                   calls, refreshes, estfail>>

Step(t) ==
    \/ Invoke(t)
    \/ ThrottleAttempt(t)
    \/ InnerGetAttr(t)
    \/ RemoteReturns(t)
    \/ RemoteRaises(t)
    \/ InnerExcept(t)
    \/ RefreshSession(t)
    \/ StoreClient(t)
    \/ RefreshFails(t)
    \/ OuterExcept(t)
    \/ Sleep(t)

\* One caller using the handle.
Next == Step(MainThread)

Spec == Init /\ [][Next]_vars

\* Several threads sharing the handle, each calling one operation of a remote
\* client that answers with one result, the two retried failures or another.
SharedOpNames == {"describe_instances"}
SharedArgSets == {"args_a"}
SharedResults == {"resp_1"}
SharedErrors ==
    [cls : {"ClientError"}, code : {"RequestExpired", "Throttling", "AccessDenied"},
     msg : {<<"Request", "failed">>}]

SharedStep(t) ==
    \/ InvokeOf(t, SharedOpNames, SharedArgSets)
    \/ ThrottleAttempt(t)
    \/ InnerGetAttr(t)
    \/ RemoteReturnsOf(t, SharedResults)
    \/ RemoteRaisesOf(t, SharedErrors)
    \/ InnerExcept(t)
    \/ RefreshSession(t)
    \/ StoreClient(t)
    \/ RefreshFailsOf(t, SharedErrors)
    \/ OuterExcept(t)
    \/ Sleep(t)

NextConcurrent == \E t \in Threads : SharedStep(t)

SpecConcurrent == Init /\ [][NextConcurrent]_vars

\* The steps of an invocation under way.  Every remote call and every
\* connection establishment returns or raises, and the interpreter keeps
\* running the wrappers: an invocation under way takes its next step.
Continue(t) ==
    \/ ThrottleAttempt(t)
    \/ InnerGetAttr(t)
    \/ RemoteReturns(t)
    \/ RemoteRaises(t)
    \/ InnerExcept(t)
    \/ RefreshSession(t)
    \/ StoreClient(t)
    \/ RefreshFails(t)
    \/ OuterExcept(t)
    \/ Sleep(t)

NextFair == Invoke(MainThread) \/ Continue(MainThread)

SpecFair == Init /\ [][NextFair]_vars /\ WF_vars(Continue(MainThread))

\* ------------------------------------------------- ensure_instance_profile
\* lines 158-237, run by one caller.  Each boto_client('iam') builds a new
\* handle, whose connection replaces the modelled one.
ClusterNames == {"cassandra"}
\* line 171: 'profile-{}'.format(cluster_name), and lines 176-177
ProfileName(c) == <<"profile-", c>>
RoleName(c) == <<"role-", c>>
PolicyName(c) == <<"policy-", c, "-datavolume">>
\* The IAM operations of create_instance_profile, in the order of lines 181-221.
CreateOps ==
    <<"create_instance_profile", "create_role", "put_role_policy",
      "add_role_to_instance_profile">>
\* The keyword arguments of the i-th of them.
CreateArgs(i, c) ==
    CASE i = 1 -> [InstanceProfileName |-> ProfileName(c)]
      [] i = 2 -> [RoleName |-> RoleName(c), AssumeRolePolicyDocument |-> "assume_role_policy"]
      [] i = 3 -> [RoleName |-> RoleName(c), PolicyName |-> PolicyName(c),
                   PolicyDocument |-> "policy_document"]
      [] OTHER -> [InstanceProfileName |-> ProfileName(c), RoleName |-> RoleName(c)]
\* What IAM may answer.
IamResults == {"iam_resp_1", "iam_resp_2"}
IamErrors ==
    [cls : {"ClientError"},
     code : {"NoSuchEntity", "RequestExpired", "Throttling", "AccessDenied"},
     msg : {<<"Request", "failed">>}] \cup OtherErrors
\* resp['InstanceProfile']
InstanceProfileOf(resp) == <<resp, "InstanceProfile">>

ProxyVars == <<pc, name, args, count, retried, attr, newclient, exc, sleep_time,
               ret, raised, calls, waits, refreshes, estfail>>

\* line 233: ensure_instance_profile(cluster_name) is called.
EnsureInstanceProfile ==
    /\ ensure.pc = "idle"
    /\ \E c \in ClusterNames :
        ensure' = [EnsureIdle EXCEPT !.pc = "get_client", !.cluster = c]
    /\ UNCHANGED <<client, nextConn, ProxyVars>>

\* lines 159 and 179: iam = boto_client('iam') builds a handle with a newly
\* established connection.
BotoClientIam ==
    /\ ensure.pc \in {"get_client", "create_client"}
    /\ client' = nextConn
    /\ nextConn' = nextConn + 1
    /\ ensure' = [ensure EXCEPT !.pc = IF @ = "get_client" THEN "get_call" ELSE "create_call"]
    /\ UNCHANGED ProxyVars

\* lines 159 and 179, establishing the connection raises: both lines are
\* outside any try, the failure leaves ensure_instance_profile.
BotoClientIamFails ==
    /\ ensure.pc \in {"get_client", "create_client"}
    /\ \E e \in IamErrors :
        ensure' = [ensure EXCEPT !.pc = "done", !.raised = e]
    /\ UNCHANGED <<client, nextConn, ProxyVars>>

\* line 162: iam.get_instance_profile(InstanceProfileName=profile_name)
LookupCall ==
    /\ ensure.pc = "get_call"
    /\ Call(MainThread, "get_instance_profile",
            [InstanceProfileName |-> ProfileName(ensure.cluster)])
    /\ ensure' = [ensure EXCEPT !.pc = "get_wait",
                                !.called = Append(@, "get_instance_profile")]
    /\ UNCHANGED <<client, nextConn>>

\* lines 163-167 and 234-237, the handle's call has ended: a result is
\* returned as the profile; NoSuchEntity makes get_instance_profile return
\* None and ensure_instance_profile go on to create_instance_profile; any
\* other failure is raised.
LookupDone ==
    /\ ensure.pc = "get_wait"
    /\ pc[MainThread] = "done"
    /\ LET r == ret[MainThread]
           e == raised[MainThread]
       IN  IF e = NoExc
           THEN ensure' = [ensure EXCEPT !.pc = "done", !.found = r,
                                         !.ret = InstanceProfileOf(r)]
           ELSE IF e.cls = "ClientError" /\ e.code = "NoSuchEntity"
           THEN ensure' = [ensure EXCEPT !.pc = "create_client", !.failed = e, !.step = 1]
           ELSE ensure' = [ensure EXCEPT !.pc = "done", !.failed = e, !.raised = e]
    /\ UNCHANGED <<client, nextConn, ProxyVars>>

\* lines 181, 183, 212, 218: the next IAM call of create_instance_profile.
CreateCall ==
    /\ ensure.pc = "create_call"
    /\ Call(MainThread, CreateOps[ensure.step],
            CreateArgs(ensure.step, ensure.cluster))
    /\ ensure' = [ensure EXCEPT !.pc = "create_wait",
                                !.called = Append(@, CreateOps[ensure.step])]
    /\ UNCHANGED <<client, nextConn>>

\* The IAM call has ended: a failure leaves create_instance_profile; the
\* result of the first call is kept as `profile` (line 181); after the
\* fourth call line 229 follows.
CreateDone ==
    /\ ensure.pc = "create_wait"
    /\ pc[MainThread] = "done"
    /\ LET r == ret[MainThread]
           e == raised[MainThread]
       IN  IF e # NoExc
           THEN ensure' = [ensure EXCEPT !.pc = "done", !.raised = e]
           ELSE ensure' = [ensure EXCEPT
                             !.profile = IF ensure.step = 1 THEN r ELSE @,
                             !.step = @ + 1,
                             !.pc = IF ensure.step < Len(CreateOps)
                                    THEN "create_call" ELSE "settle"]
    /\ UNCHANGED <<client, nextConn, ProxyVars>>

\* lines 229-230 and 237: time.sleep(30); return profile['InstanceProfile'].
\* Evaluating the global name `time` raises NameError when the module has
\* not bound it.
Settle ==
    /\ ensure.pc = "settle"
    /\ IF NameBound("time")
       THEN ensure' = [ensure EXCEPT !.pc = "done", !.ret = InstanceProfileOf(ensure.profile)]
       ELSE ensure' = [ensure EXCEPT !.pc = "done", !.raised = NameError("time")]
    /\ UNCHANGED <<client, nextConn, ProxyVars>>

\* The steps of the handle's call for ensure_instance_profile.
IamStep(t) ==
    \/ ThrottleAttempt(t)
    \/ InnerGetAttr(t)
    \/ RemoteReturnsOf(t, IamResults)
    \/ RemoteRaisesOf(t, IamErrors)
    \/ InnerExcept(t)
    \/ RefreshSession(t)
    \/ StoreClient(t)
    \/ RefreshFailsOf(t, IamErrors)
    \/ OuterExcept(t)
    \/ Sleep(t)

NextProfile ==
    \/ EnsureInstanceProfile
    \/ BotoClientIam
    \/ BotoClientIamFails
    \/ LookupCall
    \/ LookupDone
    \/ CreateCall
    \/ CreateDone
    \/ Settle
    \/ IamStep(MainThread)

SpecProfile == Init /\ [][NextProfile]_vars

\* ------------------------------------------------------ reading the record
Resolved(t) == pc[t] = "done"
Succeeded(c) == c.exc = NoExc
\* The failure carries the credentials-expired code.
ExpiredFailure(e) == e.cls = "ClientError" /\ e.code = "RequestExpired"
\* The failure is a rate limit: the Throttling code, or the marker in its text.
RateLimitedFailure(e) ==
    /\ e.cls = "ClientError"
    /\ \/ e.code \in {"Throttling", "RequestLimitExceeded"}
       \/ \E i \in 1..Len(e.msg) : e.msg[i] = "RequestLimitExceeded"
\* A rate limit that is not also an expiry.
OnlyRateLimited(e) == RateLimitedFailure(e) /\ ~ExpiredFailure(e)
\* An expiry that is not also a rate limit.
OnlyExpired(e) == ExpiredFailure(e) /\ ~RateLimitedFailure(e)
AllRateLimited(c) == \A i \in 1..Len(c) : OnlyRateLimited(c[i].exc)
Last(s) == s[Len(s)]
\* Every element of s but the first is twice the one before it.
Doubling(s) == \A i \in 2..Len(s) : s[i] = 2 * s[i - 1]

\* ------------------------------------------------------------------ claims

C2_ThrottledThenSuccess ==
    \A t \in Threads :
        LET c == calls[t]
            n == Len(c)
        IN  /\ (n >= 1 /\ n <= MAX_RETRIES /\ AllRateLimited(c)) => ~Resolved(t)
            /\ ( /\ Resolved(t)
                 /\ n >= 2 /\ n <= MAX_RETRIES + 1
                 /\ AllRateLimited(SubSeq(c, 1, n - 1))
                 /\ Succeeded(c[n]) )
               => /\ ret[t] = c[n].ret
                  /\ raised[t] = NoExc
                  /\ SumSeq(waits[t]) = Pow2(n - 1) - 1

\* C3: a resolved invocation returned what its last remote call returned, or
\* raised a failure that a remote call or the connection establishment raised.
C3_OutcomeIsTheRemoteOutcome ==
    \A t \in Threads :
        Resolved(t) =>
            \/ /\ raised[t] = NoExc
               /\ ret[t] # NoRet
               /\ calls[t] # <<>>
               /\ ret[t] = Last(calls[t]).ret
            \/ /\ ret[t] = NoRet
               /\ raised[t] # NoExc
               /\ \/ \E i \in 1..Len(calls[t]) : calls[t][i].exc = raised[t]
                  \/ raised[t] \in estfail[t]

\* C4: an invocation rate-limited on every attempt resolves after exactly 11
\* remote calls and 10 waits by raising the 11th failure.
C4_ExhaustedRetries ==
    \A t \in Threads :
        (Resolved(t) /\ calls[t] # <<>> /\ AllRateLimited(calls[t])) =>
            /\ Len(calls[t]) = MAX_RETRIES + 1
            /\ Len(waits[t]) = MAX_RETRIES
            /\ raised[t] = Last(calls[t]).exc
            /\ ret[t] = NoRet

\* C5: first call RequestExpired, next call a success: the success is
\* returned after exactly one refresh and two calls, the second call on the
\* newly established connection, with no wait.
C5_ExpiredThenSuccess ==
    \A t \in Threads :
        LET c == calls[t]
        IN  (Len(c) >= 2 /\ ExpiredFailure(c[1].exc) /\ Succeeded(c[2])) =>
                /\ Resolved(t)
                /\ ret[t] = c[2].ret
                /\ raised[t] = NoExc
                /\ refreshes[t] = 1
                /\ Len(c) = 2
                /\ c[2].conn = client
                /\ c[2].conn > c[1].conn
                /\ waits[t] = <<>>

C5_Witness ==
    \E t \in Threads :
        /\ Resolved(t)
        /\ Len(calls[t]) = 2
        /\ ExpiredFailure(calls[t][1].exc)
        /\ Succeeded(calls[t][2])
        /\ ret[t] = calls[t][2].ret

C7_OtherFailurePropagates ==
    \A t \in Threads :
        LET c == calls[t]
        IN  ( /\ c # <<>>
              /\ ~Succeeded(c[1])
              /\ ~ExpiredFailure(c[1].exc)
              /\ ~RateLimitedFailure(c[1].exc) )
            => /\ Len(c) = 1
               /\ waits[t] = <<>>
               /\ refreshes[t] = 0
               /\ count[t] = 0
               /\ pc[t] \in {"inner_except", "outer_except", "done"}
               /\ Resolved(t) => (raised[t] = c[1].exc /\ ret[t] = NoRet)

\* A ClientError of another code has been raised to the caller.
C7_Witness ==
    \E t \in Threads :
        /\ Resolved(t)
        /\ Len(calls[t]) = 1
        /\ calls[t][1].exc.cls = "ClientError"
        /\ calls[t][1].exc.code = "AccessDenied"
        /\ ~RateLimitedFailure(calls[t][1].exc)
        /\ raised[t] = calls[t][1].exc

\* C8: when the first remote call succeeds, the invocation has resolved by
\* returning exactly its result: one call, no wait, no refresh.
C8_FirstSuccess ==
    \A t \in Threads :
        LET c == calls[t]
        IN  (c # <<>> /\ Succeeded(c[1])) =>
                /\ Resolved(t)
                /\ ret[t] = c[1].ret
                /\ raised[t] = NoExc
                /\ Len(c) = 1
                /\ waits[t] = <<>>
                /\ refreshes[t] = 0

\* Both operation names have returned a first-attempt result.
C8_Witness ==
    \E t \in Threads :
        /\ Resolved(t)
        /\ Len(calls[t]) = 1
        /\ Succeeded(calls[t][1])
        /\ name[t] = "create_topic"
        /\ args[t] = "args_b"
        /\ ret[t] = "resp_2"

C10_ThrottleRetryReentersRefresh ==
    \A t \in Threads :
        LET c == calls[t]
        IN  (c # <<>> /\ OnlyRateLimited(c[1].exc)) =>
                /\ Len(c) = 1 => ~Resolved(t)
                /\ ( /\ Resolved(t)
                     /\ Len(c) >= 3
                     /\ OnlyExpired(c[2].exc)
                     /\ Succeeded(c[3]) )
                   => /\ Len(c) = 3
                      /\ ret[t] = c[3].ret
                      /\ raised[t] = NoExc
                      /\ waits[t] = <<1>>
                      /\ refreshes[t] = 1

\* C11: a refresh leaves the throttle counter and the waits alone, and a rate
\* limit met after a refresh with j retries made (j < 10) waits 0.5*2^j and
\* retries: the invocation does not resolve on that failure.
C11_RefreshKeepsBackoffBudget ==
    \A t \in Threads :
        LET c == calls[t]
        IN  /\ count[t] = Len(waits[t])
            /\ Len(waits[t]) <= MAX_RETRIES
            /\ pc[t] \in {"refresh", "store"} => (ExpiredFailure(Last(c).exc) /\ count[t] = Len(waits[t]))
            /\ ( /\ refreshes[t] >= 1
                 /\ Len(c) >= 2
                 /\ OnlyRateLimited(Last(c).exc)
                 /\ count[t] < MAX_RETRIES )
               => /\ ~Resolved(t)
                  /\ pc[t] = "sleep" => sleep_time[t] = Pow2(count[t])

\* C12: when establishing the connection fails during a refresh, the
\* invocation raises that failure, makes no further remote call and no wait,
\* and the previous connection stays current.
C12_EstablishFailurePropagates ==
    \A t \in Threads :
        estfail[t] # {} =>
            /\ calls[t] # <<>>
            /\ ExpiredFailure(Last(calls[t]).exc)
            /\ client = Last(calls[t]).conn
            /\ waits[t] = <<>>
            /\ refreshes[t] = 1
            /\ Resolved(t) => (raised[t] \in estfail[t] /\ ret[t] = NoRet)

\* C13: the session wrapper refreshes exactly for code RequestExpired (when
\* it has not refreshed yet); the throttling wrapper starts a retry exactly
\* for code Throttling or a text containing RequestLimitExceeded (with
\* retries left); a failure matching neither passes both wrappers unchanged.
C13_Classification ==
    [][\A t \in Threads :
        /\ (pc[t] = "inner_except" /\ pc'[t] # "inner_except") =>
              /\ (pc'[t] = "refresh") <=> (exc[t].code = "RequestExpired" /\ ~retried[t])
              /\ exc[t].code # "RequestExpired" =>
                    (pc'[t] = "outer_except" /\ exc'[t] = exc[t] /\ refreshes'[t] = refreshes[t])
        /\ (pc[t] = "outer_except" /\ pc'[t] # "outer_except") =>
              /\ (pc'[t] = "sleep") <=> (RateLimitedFailure(exc[t]) /\ count[t] < MAX_RETRIES)
              /\ ~RateLimitedFailure(exc[t]) =>
                    (pc'[t] = "done" /\ raised'[t] = exc[t] /\ ret'[t] = NoRet
                     /\ waits'[t] = waits[t] /\ count'[t] = count[t])
      ]_vars

\* A failure of another code was taken for a rate limit by its text alone.
C13_Witness ==
    \E t \in Threads :
        /\ pc[t] = "sleep"
        /\ exc[t].code = "AccessDenied"
        /\ \E i \in 1..Len(exc[t].msg) : exc[t].msg[i] = "RequestLimitExceeded"

\* C16: every remote call of an invocation carries the operation name and
\* the arguments the caller passed.
C16_SameNameAndArgs ==
    \A t \in Threads :
        \A i \in 1..Len(calls[t]) :
            /\ calls[t][i].name = name[t]
            /\ calls[t][i].args = args[t]

\* A call was repeated after a refresh.
C16_Witness ==
    \E t \in Threads :
        /\ Len(calls[t]) = 2
        /\ refreshes[t] = 1
        /\ name[t] = "create_topic"
        /\ args[t] = "args_b"
        /\ calls[t][2].name = "create_topic"
        /\ calls[t][2].args = "args_b"

\* C17: self._client changes only in the storing step of a refresh, taken by
\* an invocation whose last remote call failed with RequestExpired.
C17_ConnectionChangesOnlyByRefresh ==
    [][client' # client =>
          \E t \in Threads :
              /\ pc[t] = "store"
              /\ pc'[t] = "inner_try"
              /\ client' = newclient[t]
              /\ refreshes[t] >= 1
              /\ calls[t] # <<>>
              /\ ExpiredFailure(Last(calls[t]).exc)
      ]_vars

\* A refresh has replaced the connection made at construction.
C17_Witness ==
    \E t \in Threads :
        /\ refreshes[t] = 1
        /\ client = newclient[t]
        /\ client # 1

\* C18: an invocation under way resolves, after at most 11 attempts of the
\* throttling wrapper, each of at most 2 remote calls (22 in all), and at
\* most 10 waits.
C18_Terminates ==
    /\ [](\A t \in Threads :
            /\ count[t] + 1 <= MAX_RETRIES + 1
            /\ Len(calls[t]) <= 2 * (count[t] + 1)
            /\ Len(calls[t]) <= 2 * (MAX_RETRIES + 1)
            /\ Len(waits[t]) <= MAX_RETRIES)
    /\ \A t \in Threads : (pc[t] \notin {"idle", "done"}) ~> Resolved(t)

\* An invocation resolved after two remote calls.
C18_Witness ==
    \E t \in Threads :
        /\ Resolved(t)
        /\ Len(calls[t]) = 2
        /\ refreshes[t] = 1

\* C14: self._client always is a connection boto3 has established; it is
\* replaced only by the single storing step of a refresh, by the connection
\* that refresh established; every read of it (line 28) yields the connection
\* current at that moment; and the current connection is never replaced by
\* one established before it, so that a read after a completed refresh yields
\* the connection of that refresh or a newer one.  Connections are numbered
\* in the order boto3 establishes them.
C14_OneLiveConnection ==
    [][ /\ client \in 1..(nextConn - 1)
        /\ client' \in 1..(nextConn' - 1)
        /\ client' # client =>
              \E t \in Threads :
                  pc[t] = "store" /\ pc'[t] = "inner_try" /\ client' = newclient[t]
        /\ \A t \in Threads :
              (pc[t] = "inner_try" /\ pc'[t] = "inner_call") => attr'[t] = client
        /\ client' >= client
      ]_vars

\* C15: an invocation starts with count 0, no waits and retried false; the
\* steps of other invocations leave its count, retried, sleep_time and waits
\* alone; retried is set only after a RequestExpired failure of its own.
C15_PerInvocationRetryState ==
    [][\A t \in Threads :
        /\ pc'[t] = pc[t] =>
              /\ count'[t] = count[t]
              /\ retried'[t] = retried[t]
              /\ sleep_time'[t] = sleep_time[t]
              /\ waits'[t] = waits[t]
        /\ (pc[t] \in {"idle", "done"} /\ pc'[t] = "outer_try") =>
              (count'[t] = 0 /\ waits'[t] = <<>>)
        /\ (pc[t] = "outer_try" /\ pc'[t] = "inner_try") => ~retried'[t]
        /\ retried'[t] => \E i \in 1..Len(calls'[t]) : ExpiredFailure(calls'[t][i].exc)
        /\ count'[t] = Len(waits'[t])
      ]_vars

\* Two invocations under way at once, one that refreshed and one that did not.
C15_Witness ==
    \E t \in Threads, u \in Threads :
        /\ t # u
        /\ retried[t] /\ pc[t] = "inner_call"
        /\ ~retried[u] /\ pc[u] = "sleep"

\* C19: ensure_instance_profile returns the profile found and makes no create
\* call; after a lookup failing with NoSuchEntity it makes the four create
\* calls in order and, all of them having succeeded, returns the profile
\* created; a lookup failing with another code is raised, with no create call.
C19_EnsureInstanceProfile ==
    LET lookup == <<"get_instance_profile">>
        n == Len(ensure.called)
    IN  ensure.pc = "done" =>
            /\ ensure.found # NoRet =>
                  /\ ensure.ret = InstanceProfileOf(ensure.found)
                  /\ ensure.raised = NoExc
                  /\ ensure.called = lookup
            /\ (ensure.failed.cls = "ClientError" /\ ensure.failed.code = "NoSuchEntity") =>
                  /\ ensure.called = SubSeq(lookup \o CreateOps, 1, n)
                  /\ ensure.step = Len(CreateOps) + 1 =>
                        /\ n = Len(CreateOps) + 1
                        /\ ensure.ret = InstanceProfileOf(ensure.profile)
                        /\ ensure.raised = NoExc
            /\ (ensure.failed.cls = "ClientError" /\ ensure.failed.code # "NoSuchEntity") =>
                  /\ ensure.raised = ensure.failed
                  /\ ensure.ret = <<>>
                  /\ ensure.called = lookup

====
